---------------------------- MODULE Spec2Model ----------------------------
(***************************************************************************)
(* A model of the spike-train analysis code of bmtk:                       *)
(*                                                                         *)
(*   bmtk/analyzer/visualization/spikes.py                                 *)
(*       _count_spikes: per-node spike counts and firing rates             *)
(*   bmtk/utils/reports/spike_trains/adaptors/csv_adaptors.py              *)
(*       write_csv, write_csv_itr, write_csv_OLD: the csv writers, run by  *)
(*       every MPI rank; CSVSTReader: the csv-backed spike store           *)
(*       (the adaptor's definitions are kept in the source as a block of   *)
(*       commented-out code; they are modelled as written there)           *)
(*                                                                         *)
(* Three specifications share the variables: SpecRates runs _count_spikes  *)
(* on bounded files, SpecStore calls the CSVSTReader queries on bounded    *)
(* stores, SpecWrite (FairSpecWrite with fairness) runs one collective     *)
(* call of a csv writer on NumRanks ranks.  A specification leaves the     *)
(* variables of the other two at their idle values.                        *)
(*                                                                         *)
(* Timestamps are integers (milliseconds unless a unit says otherwise).    *)
(* A float quotient is kept as an exact fraction num/den, or as the IEEE   *)
(* values inf and nan that numpy produces on a division by zero.           *)
(***************************************************************************)
EXTENDS Integers, Sequences, FiniteSets, TLC

(***************************************************************************)
(* Bounds of the model.                                                    *)
(***************************************************************************)
MaxLines == 2
MaxTime == 2
MaxGid == 1

\* 1e16 of spikes.py (the initial t_min and t_bounds_high when interval is
\* None) does not fit TLC's 32-bit integers.  The code only compares it with
\* timestamps and subtracts it from t_max = -1.0 when no event matched; every
\* timestamp of the model is far below this stand-in, as it is below 1e16.
T_HIGH_SENTINEL == 1000000000
\* -1.0 of spikes.py: the initial t_max and t_bounds_low when interval is None
T_LOW_SENTINEL == -1

VARIABLES
    \* ---- _count_spikes(spikes_file, max_gid, interval) ----
    spikes_file,     \* the lines of the file: a sequence of <<ts, gid>>
    max_gid,         \* argument max_gid
    interval,        \* argument interval: [kind, lo, hi]
    cs_pc,           \* position in _count_spikes
    t_min, t_max, t_bounds_low, t_bounds_high,  \* its locals
    spikes,          \* local spikes: node -> list of timestamps
    spike_sums,      \* local spike_sums: node -> count
    line_no,         \* number of lines of the file read so far
    cs_result,       \* what the call gave its caller
    \* ---- CSVSTReader ----
    reader_state,    \* "idle": no reader; "ready": __init__ has returned
    spikes_df,       \* self._spikes_df: the rows <<timestamps, population, node_ids>>
    defaul_population, \* self._defaul_population
    sort_ties,       \* the order in which this build's quicksort leaves equal keys
    csv_file,        \* the rows of the file at the path given to CSVSTReader(path, ...)
    init_args,       \* the arguments default_population and kwargs['population']
    csv_reader,      \* the reader that CSVSTReader(path, ...) is building from csv_file
    query,           \* the arguments the caller passes to n_spikes and spikes
    n_spikes_ret,    \* what n_spikes(population) returned
    spikes_ret,      \* what spikes(...) yielded
    \* ---- one collective call of a csv writer, on every rank ----
    w_variant,       \* which writer is called
    w_args,          \* its arguments
    dir_exists,      \* os.path.exists(path_dir)
    disk,            \* the rows of the file at path, as any process reads them
    f_open,          \* the writer's file object f is open
    f_buffer,        \* rows written to f that are still in its buffer
    w_pc,            \* rank -> position in the writer
    spk_i,           \* rank -> events its spikes() generator has yielded
    in_barrier,      \* the ranks that have entered the barrier
    io_ops,          \* rank -> the I/O calls it made during the write
    observed,        \* rank -> what it read from path after the write
    \* ---- plot_rates(cells_file, cell_models_file, spikes_file, ...) ----
    cells_file,      \* the rows of the node file, in file order
    cell_models_file, \* the node type file: node_type_id -> pop_name
    pr_args,         \* arguments group_key, exclude and save_as
    pr_pc,           \* position in plot_rates
    nodes_df,        \* local nodes_df: the merged node table
    spike_rates,     \* local spike_rates: what _count_spikes returned
    keys, means, stds, \* its locals: the grouped rate summary
    summary_csv,     \* the rows of the file '<base>.summary.csv'
    pr_error         \* the exception that ended the call, or ""

rate_vars == <<spikes_file, max_gid, interval, cs_pc, t_min, t_max,
               t_bounds_low, t_bounds_high, spikes, spike_sums, line_no,
               cs_result>>

reader_vars == <<reader_state, spikes_df, defaul_population, sort_ties,
                 csv_file, init_args, csv_reader>>

store_vars == <<reader_vars, query, n_spikes_ret, spikes_ret>>

write_vars == <<w_variant, w_args, dir_exists, disk, f_open, f_buffer, w_pc,
                spk_i, in_barrier, io_ops, observed>>

plot_vars == <<cells_file, cell_models_file, pr_args, pr_pc, nodes_df, spike_rates,
               keys, means, stds, summary_csv, pr_error>>

vars == <<rate_vars, store_vars, write_vars, plot_vars>>

-----------------------------------------------------------------------------
(***************************************************************************)
(* Argument values.  Python's None, a scalar and a list are kept apart by  *)
(* a kind, so that every value of an argument has one shape.               *)
(***************************************************************************)
None == [kind |-> "none", vals |-> {}]
Scalar(x) == [kind |-> "scalar", vals |-> {x}]
List(S) == [kind |-> "list", vals |-> S]

NoWindow == [given |-> FALSE, lo |-> 0, hi |-> 0]
Window(a, b) == [given |-> TRUE, lo |-> a, hi |-> b]

NoQuery == [populations |-> None, node_ids |-> None, time_window |-> NoWindow,
            sort_order |-> "none"]
NotCalled == [called |-> FALSE, value |-> 0]
NotIterated == [called |-> FALSE, value |-> <<>>]

NoPlotArgs == [group_key |-> None, exclude |-> {}, save_as |-> FALSE]

\* The values of the variables of plot_rates when it is not called.
PlotIdle ==
    /\ cells_file = <<>>
    /\ cell_models_file = <<>>
    /\ pr_args = NoPlotArgs
    /\ pr_pc = "idle"
    /\ nodes_df = <<>>
    /\ spike_rates = <<>>
    /\ keys = <<>> /\ means = <<>> /\ stds = <<>>
    /\ summary_csv = <<>>
    /\ pr_error = ""

NoInitArgs == [default_population |-> None, population |-> None]
NoReader == [state |-> "none", error |-> "", has_headers |-> FALSE,
             columns |-> <<>>, _spikes_df |-> <<>>, _defaul_population |-> ""]

\* The values of the variables of a component no call of which is running.
ReadIdle ==
    /\ csv_file = <<>>
    /\ init_args = NoInitArgs
    /\ csv_reader = NoReader

StoreIdle ==
    /\ reader_state = "idle"
    /\ ReadIdle
    /\ spikes_df = <<>>
    /\ defaul_population = ""
    /\ sort_ties = <<>>
    /\ query = NoQuery
    /\ n_spikes_ret = NotCalled
    /\ spikes_ret = NotIterated

NumRanks == 2
\* the MPI ranks of the cooperating processes
Ranks == 0..(NumRanks - 1)

NotRead == [read |-> FALSE, rows |-> <<>>]
NoArgs == [path_dir |-> FALSE, sort_order |-> "none", include_header |-> FALSE,
           include_population |-> FALSE, reader_units |-> "ms", units |-> "ms"]

WriteIdle ==
    /\ w_variant = "none"
    /\ w_args = NoArgs
    /\ dir_exists = FALSE
    /\ disk = <<>>
    /\ f_open = FALSE
    /\ f_buffer = <<>>
    /\ w_pc = [p \in Ranks |-> "idle"]
    /\ spk_i = [p \in Ranks |-> 0]
    /\ in_barrier = {}
    /\ io_ops = [p \in Ranks |-> {}]
    /\ observed = [p \in Ranks |-> NotRead]

RatesIdle ==
    /\ spikes_file = <<>>
    /\ max_gid = 0
    /\ interval = [kind |-> "none", lo |-> 0, hi |-> 0]
    /\ cs_pc = "idle"
    /\ t_min = 0 /\ t_max = 0 /\ t_bounds_low = 0 /\ t_bounds_high = 0
    /\ spikes = <<>>
    /\ spike_sums = <<>>
    /\ line_no = 0
    /\ cs_result = [kind |-> "none", error |-> "", rates |-> <<>>, spikes |-> <<>>]

RECURSIVE SeqsUpTo(_, _)
SeqsUpTo(S, n) ==
    IF n = 0 THEN {<<>>}
    ELSE LET shorter == SeqsUpTo(S, n - 1)
         IN  shorter \cup {Append(s, x) : s \in {t \in shorter : Len(t) = n - 1}, x \in S}

-----------------------------------------------------------------------------
(***************************************************************************)
(* _count_spikes                                                           *)
(***************************************************************************)
Times == 0..MaxTime
\* node ids a line of the file can carry: in range, above max_gid, negative
\* within the length of the counters, negative beyond it
Gids == (0 - (MaxGid + 2))..(MaxGid + 1)
Lines == Times \X Gids

\* The values of the interval argument: None, a 2-element list, a single
\* float, a single integer.
NoInterval == [kind |-> "none", lo |-> 0, hi |-> 0]
Intervals ==
    {NoInterval}
    \cup {[kind |-> "pair", lo |-> a, hi |-> b] : a \in Times, b \in Times}
    \cup {[kind |-> k, lo |-> a, hi |-> a] : k \in {"float", "int"}, a \in {1}}

\* A float as the code computes it.
Finite(n, d) == [kind |-> "finite", num |-> n, den |-> d]
Inf == [kind |-> "inf", num |-> 0, den |-> 0]
NaN == [kind |-> "nan", num |-> 0, den |-> 0]

\* spike_sums / (float(t_max - t_min) * 1e-3), elementwise on a numpy array:
\* numpy divides by 0.0 without raising (inf for a positive count, nan for
\* 0/0); otherwise count / (dur * 1e-3) = (count * 1000) / dur.
NumpyRate(count, dur) ==
    IF dur = 0
    THEN IF count = 0 THEN NaN ELSE Inf
    ELSE Finite(count * 1000, dur)

\* Indexing a Python list or numpy array of length n with i: the position
\* read, or -1 where Python raises IndexError.  A negative i counts from the
\* end.
PyIndex(i, n) ==
    IF 0 <= i /\ i < n THEN i
    ELSE IF i < 0 /\ 0 - n <= i THEN i + n
    ELSE -1

NoResult == [kind |-> "none", error |-> "", rates |-> <<>>, spikes |-> <<>>]
Raised(type) == [kind |-> "error", error |-> type, rates |-> <<>>, spikes |-> <<>>]
Returned(sp, rates) == [kind |-> "return", error |-> "", rates |-> rates, spikes |-> sp]

InitRates ==
    /\ spikes_file \in SeqsUpTo(Lines, MaxLines)
    /\ max_gid \in 0..MaxGid
    /\ interval \in Intervals
    /\ cs_pc = "call"
    /\ t_min = 0 /\ t_max = 0 /\ t_bounds_low = 0 /\ t_bounds_high = 0
    /\ spikes = <<>>
    /\ spike_sums = <<>>
    /\ line_no = 0
    /\ cs_result = NoResult
    /\ StoreIdle
    /\ WriteIdle
    /\ PlotIdle

\* lines 38-43 and 50-52: interval None or a 2-element sequence
ResolveInterval ==
    /\ cs_pc = "call"
    /\ interval.kind \in {"none", "pair"}
    /\ IF interval.kind = "none"
       THEN /\ t_max' = T_LOW_SENTINEL /\ t_bounds_low' = T_LOW_SENTINEL
            /\ t_min' = T_HIGH_SENTINEL /\ t_bounds_high' = T_HIGH_SENTINEL
       ELSE /\ t_min' = interval.lo /\ t_bounds_low' = interval.lo
            /\ t_max' = interval.hi /\ t_bounds_high' = interval.hi
    /\ spikes' = [n \in 0..max_gid |-> <<>>]
    /\ spike_sums' = [n \in 0..max_gid |-> 0]
    /\ cs_pc' = "loop"
    /\ UNCHANGED <<spikes_file, max_gid, interval, line_no, cs_result>>
    /\ UNCHANGED <<store_vars, write_vars, plot_vars>>

\* lines 44-48: a single float reaches interval[0], which raises TypeError
\* (a float has no __getitem__); anything else raises the generic Exception.
RejectInterval ==
    /\ cs_pc = "call"
    /\ interval.kind \in {"float", "int"}
    /\ cs_result' = Raised(IF interval.kind = "float" THEN "TypeError" ELSE "Exception")
    /\ cs_pc' = "raised"
    /\ UNCHANGED <<spikes_file, max_gid, interval, t_min, t_max, t_bounds_low,
                   t_bounds_high, spikes, spike_sums, line_no>>
    /\ UNCHANGED <<store_vars, write_vars, plot_vars>>

\* line 55
Matches(ts, gid) == gid <= max_gid /\ t_bounds_low <= ts /\ ts <= t_bounds_high

\* lines 53-59: one iteration of the loop over the file
ReadLine ==
    /\ cs_pc = "loop"
    /\ line_no < Len(spikes_file)
    /\ LET ts == spikes_file[line_no + 1][1]
           gid == spikes_file[line_no + 1][2]
           at == PyIndex(gid, max_gid + 1)
       IN  /\ line_no' = line_no + 1
           /\ IF ~Matches(ts, gid)
              THEN UNCHANGED <<spikes, spike_sums, t_min, t_max, cs_pc, cs_result>>
              ELSE IF at = -1
              THEN /\ cs_result' = Raised("IndexError")
                   /\ cs_pc' = "raised"
                   /\ UNCHANGED <<spikes, spike_sums, t_min, t_max>>
              ELSE /\ spikes' = [spikes EXCEPT ![at] = Append(@, ts)]
                   /\ spike_sums' = [spike_sums EXCEPT ![at] = @ + 1]
                   /\ t_min' = IF ts < t_min THEN ts ELSE t_min
                   /\ t_max' = IF ts > t_max THEN ts ELSE t_max
                   /\ UNCHANGED <<cs_pc, cs_result>>
    /\ UNCHANGED <<spikes_file, max_gid, interval, t_bounds_low, t_bounds_high>>
    /\ UNCHANGED <<store_vars, write_vars, plot_vars>>

\* line 61
ReturnRates ==
    /\ cs_pc = "loop"
    /\ line_no = Len(spikes_file)
    /\ cs_result' = Returned(spikes, [n \in 0..max_gid |-> NumpyRate(spike_sums[n], t_max - t_min)])
    /\ cs_pc' = "done"
    /\ UNCHANGED <<spikes_file, max_gid, interval, t_min, t_max, t_bounds_low,
                   t_bounds_high, spikes, spike_sums, line_no>>
    /\ UNCHANGED <<store_vars, write_vars, plot_vars>>

NextRates ==
    \/ ResolveInterval
    \/ RejectInterval
    \/ ReadLine
    \/ ReturnRates

SpecRates == InitRates /\ [][NextRates]_vars

-----------------------------------------------------------------------------
(***************************************************************************)
(* CSVSTReader: the store behind a csv file                                *)
(***************************************************************************)
MaxRows == 2

StoreTimes == {1, 2}
Pops == {"a", "b"}
NodeIds == {0, 1}
\* a row of _spikes_df, in the order of csv_headers
Rows == StoreTimes \X Pops \X NodeIds

col_timestamps(row) == row[1]
col_population(row) == row[2]
col_node_ids(row) == row[3]

Perms(S) == {f \in [S -> S] : \A x, y \in S : f[x] = f[y] => x = y}

\* the indices of S as a sequence, in increasing order of key
RECURSIVE SortByKey(_, _)
SortByKey(S, key) ==
    IF S = {} THEN <<>>
    ELSE LET first == CHOOSE i \in S : \A j \in S : key[i] <= key[j]
         IN  <<first>> \o SortByKey(S \ {first}, key)

\* DataFrame.sort_values(by=column) with the default kind='quicksort', which
\* is not a stable sort: rows of equal key come out in an order the numpy
\* build decides, here ties.  Without a sort the rows keep the file's order.
SortValues(df, index, sort_order, ties) ==
    LET n == Len(df) + 1
        key == [i \in index |->
                   IF sort_order = "by_time" THEN col_timestamps(df[i]) * n + ties[i]
                   ELSE IF sort_order = "by_id" THEN col_node_ids(df[i]) * n + ties[i]
                   ELSE i]
    IN  SortByKey(index, key)

\* lines 131-136 and 187-192: mask &= selected[col_population] == populations
\* (a string or scalar) or .isin(populations) (a list)
PopulationMask(row, populations) ==
    populations.kind = "none" \/ col_population(row) \in populations.vals

\* lines 194-196
NodeMask(row, node_ids) ==
    node_ids.kind = "none" \/ col_node_ids(row) \in node_ids.vals

\* lines 198-199
TimeMask(row, time_window) ==
    ~time_window.given
    \/ (col_timestamps(row) >= time_window.lo /\ col_timestamps(row) <= time_window.hi)

\* CSVSTReader.to_dataframe (lines 128-150); the index is reset at the end
to_dataframe(df, populations, sort_order, with_population_col, ties) ==
    LET index == {i \in 1..Len(df) : PopulationMask(df[i], populations)}
        order == SortValues(df, index, sort_order, ties)
    IN  [k \in 1..Len(order) |->
            IF with_population_col THEN df[order[k]]
            ELSE <<col_timestamps(df[order[k]]), col_node_ids(df[order[k]])>>]

\* CSVSTReader.n_spikes (lines 168-170)
n_spikes(df, default, population, ties) ==
    LET p == IF population.kind # "none" THEN population ELSE Scalar(default)
    IN  Len(to_dataframe(df, p, "none", TRUE, ties))

\* CSVSTReader.spikes (lines 184-211): the labels of the selected rows,
\* sorted, then one tuple of the unselected frame per label
spikes_indicies(df, node_ids, populations, time_window, sort_order, ties) ==
    LET index == {i \in 1..Len(df) : /\ PopulationMask(df[i], populations)
                                      /\ NodeMask(df[i], node_ids)
                                      /\ TimeMask(df[i], time_window)}
    IN  SortValues(df, index, sort_order, ties)

spikes_itr(df, node_ids, populations, time_window, sort_order, ties) ==
    LET indicies == spikes_indicies(df, node_ids, populations, time_window, sort_order, ties)
    IN  [k \in 1..Len(indicies) |-> df[indicies[k]]]

\* CSVSTReader.__init__ (line 112) on a file that has the population column:
\* the caller's default_population, else the population of the first row,
\* which a file without rows does not have.
InitDefaultPopulation(df, default_population) ==
    IF default_population.kind # "none"
    THEN CHOOSE x \in default_population.vals : TRUE
    ELSE col_population(df[1])

ReaderConstructed(default_population, rows, max_rows) ==
    /\ reader_state = "ready"
    /\ spikes_df \in SeqsUpTo(rows, max_rows)
    /\ default_population.kind = "none" => Len(spikes_df) > 0
    /\ defaul_population = InitDefaultPopulation(spikes_df, default_population)
    /\ sort_ties \in Perms(1..Len(spikes_df))
    /\ ReadIdle

PopulationArgs == {None} \cup {Scalar(x) : x \in Pops} \cup {List(Pops)}
NodeArgs == {None, Scalar(0)}
WindowArgs == {NoWindow, Window(2, 2)}
SortOrders == {"none", "by_time", "by_id"}

InitStore ==
    /\ \E default_population \in {None} \cup {Scalar(x) : x \in Pops} :
          ReaderConstructed(default_population, Rows, MaxRows)
    /\ query \in [populations : PopulationArgs, node_ids : NodeArgs,
                  time_window : WindowArgs, sort_order : SortOrders]
    /\ n_spikes_ret = NotCalled
    /\ spikes_ret = NotIterated
    /\ RatesIdle
    /\ PlotIdle
    /\ WriteIdle

\* the caller counts: reader.n_spikes(population=query.populations)
CallNSpikes ==
    /\ reader_state = "ready"
    /\ ~n_spikes_ret.called
    /\ n_spikes_ret' = [called |-> TRUE,
                        value |-> n_spikes(spikes_df, defaul_population,
                                           query.populations, sort_ties)]
    /\ UNCHANGED <<reader_vars, query, spikes_ret, rate_vars, write_vars, plot_vars>>

\* the caller iterates: list(reader.spikes(node_ids, populations, time_window,
\* sort_order))
CallSpikes ==
    /\ reader_state = "ready"
    /\ ~spikes_ret.called
    /\ spikes_ret' = [called |-> TRUE,
                      value |-> spikes_itr(spikes_df, query.node_ids, query.populations,
                                           query.time_window, query.sort_order, sort_ties)]
    /\ UNCHANGED <<reader_vars, query, n_spikes_ret, rate_vars, write_vars, plot_vars>>

NextStore ==
    \/ CallNSpikes
    \/ CallSpikes

SpecStore == InitStore /\ [][NextStore]_vars

-----------------------------------------------------------------------------
(***************************************************************************)
(* The csv writers.  Every rank calls the writer with the same arguments   *)
(* and a reader of its own over the same rows (mode is the default 'w').   *)
(* An I/O call is taken to return: makedirs, open and the writes raise     *)
(* nothing in the model.                                                   *)
(***************************************************************************)
MaxWriteRows == 1

\* csv_headers of ..core: the fixed column set of the contract
csv_headers == <<"timestamps", "population", "node_ids">>

\* find_conversion of ..core, as a fraction: the ratio between two units
find_conversion(from, to) ==
    IF from = to THEN [num |-> 1, den |-> 1]
    ELSE IF from = "ms" /\ to = "s" THEN [num |-> 1, den |-> 1000]
    ELSE [num |-> 1000, den |-> 1]

\* line 39
cols_to_print(include_population) ==
    IF include_population THEN csv_headers
    ELSE SelectSeq(csv_headers, LAMBDA c : c # "population")

\* a row of the file: the header, or the fields of one event
HeaderRow(cols) ==
    [kind |-> "header", cols |-> cols, ts |-> [num |-> 0, den |-> 1], pop |-> "", nid |-> 0]
DataRow(cols, ts, pop, nid) ==
    [kind |-> "data", cols |-> cols, ts |-> ts, pop |-> pop, nid |-> nid]

\* lines 48-49 (76 and 84 of write_csv_OLD): ts = spk[0]*conv_factor, and the
\* population only if it is included
c_data(spk, conv_factor, include_population) ==
    DataRow(cols_to_print(include_population),
            [num |-> spk[1] * conv_factor.num, den |-> conv_factor.den],
            IF include_population THEN spk[2] ELSE "",
            spk[3])

\* a writer whose rank tests let every rank through
IsWriterRoleAll(p) == TRUE
\* bmtk_world_comm.MPI_rank == 0 (lines 21, 26, 35, 40, 47, 58, 64)
IsWriterRole(p) == p = 0

\* a writer whose barrier call sits inside the rank test
CallsBarrierWriterOnly(p) == p = 0
\* line 52 (29, 90): the barrier is called outside every rank test
CallsBarrier(p) == TRUE

\* what spiketrain_reader.spikes(sort_order=sort_order) yields on a rank
ReaderSpikes ==
    spikes_itr(spikes_df, None, None, NoWindow, w_args.sort_order, sort_ties)

\* line 24 and 27 of write_csv: the frame handed to to_csv.  write_csv
\* neither converts the timestamps nor drops the population column.
DataFrameRows ==
    LET df == to_dataframe(spikes_df, None, w_args.sort_order, TRUE, sort_ties)
    IN  (IF w_args.include_header THEN <<HeaderRow(csv_headers)>> ELSE <<>>)
        \o [k \in 1..Len(df) |->
              DataRow(csv_headers, [num |-> df[k][1], den |-> 1], df[k][2], df[k][3])]

WriteVariants == {"write_csv", "write_csv_itr", "write_csv_OLD"}
WriteRowsAlphabet == {<<1, "a", 0>>, <<2, "b", 1>>}
WriteArgs ==
    [path_dir : BOOLEAN, sort_order : {"none", "by_time"}, include_header : BOOLEAN,
     include_population : BOOLEAN, reader_units : {"ms"}, units : {"ms", "s"}]

InitWriteOn(args, rows) ==
    /\ ReaderConstructed(Scalar("a"), rows, MaxWriteRows)
    /\ query = NoQuery
    /\ n_spikes_ret = NotCalled
    /\ spikes_ret = NotIterated
    /\ w_variant \in WriteVariants
    /\ w_args \in args
    /\ dir_exists \in BOOLEAN
    /\ disk = <<>>
    /\ f_open = FALSE
    /\ f_buffer = <<>>
    /\ w_pc = [p \in Ranks |-> "start"]
    /\ spk_i = [p \in Ranks |-> 0]
    /\ in_barrier = {}
    /\ io_ops = [p \in Ranks |-> {}]
    /\ observed = [p \in Ranks |-> NotRead]
    /\ RatesIdle
    /\ PlotIdle

InitWrite == InitWriteOn(WriteArgs, WriteRowsAlphabet)

\* The calls the progress of the ranks is checked on: whether a rank reaches
\* the barrier depends on the writer, the directory, the header and the
\* number of events, not on what the rows hold.
ProgressArgs ==
    [path_dir : BOOLEAN, sort_order : {"none"}, include_header : BOOLEAN,
     include_population : {TRUE}, reader_units : {"ms"}, units : {"ms"}]

InitWriteProgress == InitWriteOn(ProgressArgs, {<<1, "a", 0>>})

Goto(p, label) == w_pc' = [w_pc EXCEPT ![p] = label]
DidIO(p, op) == io_ops' = [io_ops EXCEPT ![p] = @ \cup {op}]

\* csv_writer.writerow(row): the row goes to the buffer of f; when the
\* buffer fills, the buffer goes to the file
WriteRow(row, flush) ==
    IF flush
    THEN /\ disk' = disk \o f_buffer \o <<row>>
         /\ f_buffer' = <<>>
    ELSE /\ f_buffer' = Append(f_buffer, row)
         /\ UNCHANGED disk

\* lines 34-36 (20-22, 57-59)
MakeDirs(p) ==
    /\ w_pc[p] = "start"
    /\ IF IsWriterRole(p) /\ w_args.path_dir /\ ~dir_exists
       THEN dir_exists' = TRUE /\ DidIO(p, "makedirs")
       ELSE UNCHANGED <<dir_exists, io_ops>>
    /\ Goto(p, "open")
    /\ UNCHANGED <<w_variant, w_args, disk, f_open, f_buffer, spk_i, in_barrier,
                   observed, store_vars, rate_vars, plot_vars>>

\* write_csv, lines 24-27: every rank builds the frame, rank 0 writes it;
\* to_csv opens, writes and closes the file
ToCsv(p) ==
    /\ w_variant = "write_csv"
    /\ w_pc[p] = "open"
    /\ IF IsWriterRole(p)
       THEN disk' = DataFrameRows /\ DidIO(p, "to_csv")
       ELSE UNCHANGED <<disk, io_ops>>
    /\ Goto(p, "barrier")
    /\ UNCHANGED <<w_variant, w_args, dir_exists, f_open, f_buffer, spk_i,
                   in_barrier, observed, store_vars, rate_vars, plot_vars>>

\* write_csv_itr, lines 38-42, and write_csv_OLD, lines 63-69: rank 0 opens
\* the file, which mode 'w' truncates; the other ranks go on to the loop
\* (write_csv_itr) or to the barrier (write_csv_OLD)
OpenFile(p) ==
    /\ w_variant \in {"write_csv_itr", "write_csv_OLD"}
    /\ w_pc[p] = "open"
    /\ IF IsWriterRole(p)
       THEN /\ f_open' = TRUE
            /\ disk' = <<>>
            /\ f_buffer' = <<>>
            /\ DidIO(p, "open")
            /\ Goto(p, IF w_args.include_header THEN "header" ELSE "loop")
       ELSE /\ Goto(p, IF w_variant = "write_csv_itr" THEN "loop" ELSE "barrier")
            /\ UNCHANGED <<f_open, disk, f_buffer, io_ops>>
    /\ UNCHANGED <<w_variant, w_args, dir_exists, spk_i, in_barrier, observed,
                   store_vars, rate_vars, plot_vars>>

\* lines 43-44 (73-74, 81-82)
WriteHeader(p) ==
    /\ w_pc[p] = "header"
    /\ \E flush \in BOOLEAN :
          WriteRow(HeaderRow(cols_to_print(w_args.include_population)), flush)
    /\ DidIO(p, "writerow")
    /\ Goto(p, "loop")
    /\ UNCHANGED <<w_variant, w_args, dir_exists, f_open, spk_i, in_barrier,
                   observed, store_vars, rate_vars, plot_vars>>

\* lines 46-50 (75-76, 83-84): one event of the generator; only rank 0
\* writes it.  After the last event write_csv_itr goes to the barrier and
\* write_csv_OLD leaves its with block.
LoopStep(p) ==
    /\ w_pc[p] = "loop"
    /\ IF spk_i[p] < Len(ReaderSpikes)
       THEN /\ spk_i' = [spk_i EXCEPT ![p] = @ + 1]
            /\ IF IsWriterRole(p)
               THEN /\ \E flush \in BOOLEAN :
                          WriteRow(c_data(ReaderSpikes[spk_i[p] + 1],
                                          find_conversion(w_args.reader_units, w_args.units),
                                          w_args.include_population), flush)
                    /\ DidIO(p, "writerow")
               ELSE UNCHANGED <<disk, f_buffer, io_ops>>
            /\ UNCHANGED w_pc
       ELSE /\ Goto(p, IF w_variant = "write_csv_itr" THEN "barrier" ELSE "close")
            /\ UNCHANGED <<spk_i, disk, f_buffer, io_ops>>
    /\ UNCHANGED <<w_variant, w_args, dir_exists, f_open, in_barrier, observed,
                   store_vars, rate_vars, plot_vars>>

\* write_csv_OLD, line 69: the with block closes f, which flushes it
CloseFile(p) ==
    /\ w_pc[p] = "close"
    /\ disk' = disk \o f_buffer
    /\ f_buffer' = <<>>
    /\ f_open' = FALSE
    /\ Goto(p, "barrier")
    /\ UNCHANGED <<w_variant, w_args, dir_exists, spk_i, in_barrier, io_ops,
                   observed, store_vars, rate_vars, plot_vars>>

\* line 52 (29, 90): bmtk_world_comm.barrier() is entered ...
EnterBarrier(p) ==
    /\ w_pc[p] = "barrier"
    /\ IF CallsBarrier(p)
       THEN in_barrier' = in_barrier \cup {p} /\ Goto(p, "wait")
       ELSE UNCHANGED in_barrier /\ Goto(p, "return")
    /\ UNCHANGED <<w_variant, w_args, dir_exists, disk, f_open, f_buffer, spk_i,
                   io_ops, observed, store_vars, rate_vars, plot_vars>>

\* ... and left once every rank has entered it
LeaveBarrier(p) ==
    /\ w_pc[p] = "wait"
    /\ in_barrier = Ranks
    /\ Goto(p, "return")
    /\ UNCHANGED <<w_variant, w_args, dir_exists, disk, f_open, f_buffer, spk_i,
                   in_barrier, io_ops, observed, store_vars, rate_vars, plot_vars>>

\* The writer returns.  write_csv_itr never closes f: the file object is
\* closed, and its buffer flushed, when the local f is dropped at the return.
Return(p) ==
    /\ w_pc[p] = "return"
    /\ IF IsWriterRole(p) /\ f_open
       THEN /\ disk' = disk \o f_buffer
            /\ f_buffer' = <<>>
            /\ f_open' = FALSE
       ELSE UNCHANGED <<disk, f_buffer, f_open>>
    /\ Goto(p, "done")
    /\ UNCHANGED <<w_variant, w_args, dir_exists, spk_i, in_barrier, io_ops,
                   observed, store_vars, rate_vars, plot_vars>>

\* after the write a rank opens path and reads it
ReadBack(p) ==
    /\ w_pc[p] = "done"
    /\ observed' = [observed EXCEPT ![p] = [read |-> TRUE, rows |-> disk]]
    /\ Goto(p, "read")
    /\ UNCHANGED <<w_variant, w_args, dir_exists, disk, f_open, f_buffer, spk_i,
                   in_barrier, io_ops, store_vars, rate_vars, plot_vars>>

\* the steps of the writer on rank p
WriterStep(p) ==
    \/ MakeDirs(p)
    \/ ToCsv(p)
    \/ OpenFile(p)
    \/ WriteHeader(p)
    \/ LoopStep(p)
    \/ CloseFile(p)
    \/ EnterBarrier(p)
    \/ LeaveBarrier(p)
    \/ Return(p)

NextWrite ==
    \/ \E p \in Ranks : MakeDirs(p)
    \/ \E p \in Ranks : ToCsv(p)
    \/ \E p \in Ranks : OpenFile(p)
    \/ \E p \in Ranks : WriteHeader(p)
    \/ \E p \in Ranks : LoopStep(p)
    \/ \E p \in Ranks : CloseFile(p)
    \/ \E p \in Ranks : EnterBarrier(p)
    \/ \E p \in Ranks : LeaveBarrier(p)
    \/ \E p \in Ranks : Return(p)
    \/ \E p \in Ranks : ReadBack(p)

SpecWrite == InitWrite /\ [][NextWrite]_vars

\* Every rank is a running process: a rank that can take a step of the
\* writer eventually takes one.
FairSpecWrite ==
    /\ InitWriteProgress
    /\ [][NextWrite]_vars
    /\ \A p \in Ranks : WF_vars(WriterStep(p))

-----------------------------------------------------------------------------
(***************************************************************************)
(* Claims about _count_spikes (checked under SpecRates)                    *)
(***************************************************************************)
Count(S) == Cardinality(S)

\* the lines read so far that carry node n inside the bounds of the window
EventsOf(n, upto) ==
    {i \in 1..upto : /\ spikes_file[i][2] = n
                     /\ t_bounds_low <= spikes_file[i][1]
                     /\ spikes_file[i][1] <= t_bounds_high}

\* the lines read so far whose node id lies in 0..max_gid
InRangeLines(upto) ==
    {i \in 1..upto : 0 <= spikes_file[i][2] /\ spikes_file[i][2] <= max_gid}

SetMin(S) == CHOOSE x \in S : \A y \in S : x <= y
SetMax(S) == CHOOSE x \in S : \A y \in S : y <= x

\* C4: when the resolved window has zero duration (t_max = t_min at the
\* return), the call returns rate 0 for every node 0..max_gid: no error, no
\* infinite value, no NaN.
C4_ZeroDurationRateIsZero ==
    (cs_pc \in {"done", "raised"} /\ interval.kind \in {"none", "pair"} /\ t_max = t_min)
        => /\ cs_result.kind = "return"
           /\ \A n \in 0..max_gid :
                cs_result.rates[n].kind = "finite" /\ cs_result.rates[n].num = 0

\* C5: with interval None and no matching event (an empty file, or every
\* node id above max_gid) the call signals EmptyWindow and returns no rate
\* vector.
C5_EmptyWindowSignalled ==
    ( /\ cs_pc \in {"done", "raised"}
      /\ interval.kind = "none"
      /\ \A i \in 1..Len(spikes_file) : spikes_file[i][2] > max_gid )
        => cs_result = Raised("EmptyWindow")

\* C6: an interval that is a single float or integer is rejected with
\* InvalidInterval before any line of the file is read, and no rate vector
\* is returned.
C6_SingleValueIntervalRejected ==
    (interval.kind \in {"float", "int"} /\ cs_pc # "call")
        => cs_result = Raised("InvalidInterval") /\ line_no = 0

\* C7: an event whose node id is outside 0..max_gid (above max_gid, or
\* negative) is dropped silently: at every point of the loop no error has
\* been raised, every counter holds the number of in-window events read for
\* its own node, and the observed window is the one the in-range events give.
C7_OutOfRangeDropped ==
    (cs_pc \in {"loop", "done", "raised"} /\ interval.kind \in {"none", "pair"})
        => /\ cs_result.kind # "error"
           /\ \A n \in 0..max_gid : spike_sums[n] = Count(EventsOf(n, line_no))
           /\ LET seen == {spikes_file[i][1] :
                            i \in {j \in InRangeLines(line_no) :
                                     /\ t_bounds_low <= spikes_file[j][1]
                                     /\ spikes_file[j][1] <= t_bounds_high}}
                  low0 == IF interval.kind = "none" THEN T_HIGH_SENTINEL ELSE interval.lo
                  high0 == IF interval.kind = "none" THEN T_LOW_SENTINEL ELSE interval.hi
              IN  /\ t_min = SetMin(seen \cup {low0})
                  /\ t_max = SetMax(seen \cup {high0})

\* the rate the specification defines for node n over [lo, hi], lo < hi:
\* count / ((hi - lo) * 1e-3)
WindowRate(n) ==
    Finite(1000 * Count({i \in 1..Len(spikes_file) :
                            /\ spikes_file[i][2] = n
                            /\ interval.lo <= spikes_file[i][1]
                            /\ spikes_file[i][1] <= interval.hi}),
           interval.hi - interval.lo)

\* C8: given a 2-element interval [t_low, t_high], t_low < t_high, the call
\* returns, for every node n in 0..max_gid, the number of events of n with
\* t_low <= ts <= t_high divided by (t_high - t_low) in seconds (0 for a node
\* without events).
C8_RateOverInterval ==
    (cs_pc \in {"done", "raised"} /\ interval.kind = "pair" /\ interval.lo < interval.hi)
        => /\ cs_result.kind = "return"
           /\ \A n \in 0..max_gid : cs_result.rates[n] = WindowRate(n)

\* What does hold of C8: the same statement for the files none of whose
\* lines carries a negative node id.
RateOverIntervalOnNonNegativeIds ==
    ( /\ cs_pc \in {"done", "raised"}
      /\ interval.kind = "pair" /\ interval.lo < interval.hi
      /\ \A i \in 1..Len(spikes_file) : spikes_file[i][2] >= 0 )
        => /\ cs_result.kind = "return"
           /\ \A n \in 0..max_gid : cs_result.rates[n] = WindowRate(n)

\* What does hold of C7: the events above max_gid are dropped.
AboveMaxGidDropped ==
    ( /\ cs_pc \in {"loop", "done", "raised"}
      /\ interval.kind \in {"none", "pair"}
      /\ \A i \in 1..Len(spikes_file) : spikes_file[i][2] >= 0 )
        => /\ cs_result.kind # "error"
           /\ \A n \in 0..max_gid : spike_sums[n] = Count(EventsOf(n, line_no))


-----------------------------------------------------------------------------
(***************************************************************************)
(* Claims about CSVSTReader (checked under SpecStore)                      *)
(***************************************************************************)
\* n_spikes takes the population filter only: the two calls are under the
\* same filters when spikes was given no node and no time filter
SameFilters ==
    /\ n_spikes_ret.called /\ spikes_ret.called
    /\ query.node_ids = None /\ query.time_window = NoWindow

\* C9: for every store, sort order and population filter, the omitted one
\* included, the number of events spikes yields equals what n_spikes returns
\* under the same filter.
C9_IterateLengthEqualsCount ==
    SameFilters => Len(spikes_ret.value) = n_spikes_ret.value

\* What does hold of C9: the two agree under every population filter that is
\* given; with the filter omitted n_spikes counts the default population.
IterateLengthEqualsCountGivenFilter ==
    SameFilters =>
        IF query.populations # None
        THEN Len(spikes_ret.value) = n_spikes_ret.value
        ELSE /\ Len(spikes_ret.value) = Len(spikes_df)
             /\ n_spikes_ret.value =
                  Cardinality({i \in 1..Len(spikes_df) :
                                  col_population(spikes_df[i]) = defaul_population})

\* the rows the query selects, in the order of the file
SelectedInFileOrder ==
    spikes_itr(spikes_df, query.node_ids, query.populations, query.time_window,
               "none", sort_ties)

\* s is r reordered by non-decreasing timestamp, rows of equal timestamp in
\* the order they have in r
RECURSIVE StableByTime(_)
StableByTime(r) ==
    IF r = <<>> THEN <<>>
    ELSE LET low == CHOOSE t \in {col_timestamps(r[i]) : i \in 1..Len(r)} :
                        \A i \in 1..Len(r) : t <= col_timestamps(r[i])
         IN  SelectSeq(r, LAMBDA row : col_timestamps(row) = low)
             \o StableByTime(SelectSeq(r, LAMBDA row : col_timestamps(row) # low))

\* C10: under by_time spikes yields the selected events in non-decreasing
\* timestamp order, events of equal timestamp in their order in the file.
C10_ByTimeStable ==
    (spikes_ret.called /\ query.sort_order = "by_time")
        => /\ \A i, j \in 1..Len(spikes_ret.value) :
                i < j => col_timestamps(spikes_ret.value[i]) <= col_timestamps(spikes_ret.value[j])
           /\ spikes_ret.value = StableByTime(SelectedInFileOrder)

\* What does hold of C10: the timestamps never decrease, and the events are
\* the selected ones.
ByTimeNonDecreasing ==
    (spikes_ret.called /\ query.sort_order = "by_time")
        => /\ \A i, j \in 1..Len(spikes_ret.value) :
                i < j => col_timestamps(spikes_ret.value[i]) <= col_timestamps(spikes_ret.value[j])
           /\ \A row \in Rows :
                Cardinality({i \in 1..Len(spikes_ret.value) : spikes_ret.value[i] = row})
                  = Cardinality({i \in 1..Len(SelectedInFileOrder) : SelectedInFileOrder[i] = row})


-----------------------------------------------------------------------------
(***************************************************************************)
(* Claims about the csv writers (checked under SpecWrite, FairSpecWrite)   *)
(***************************************************************************)
\* rank p has entered the barrier / has left it
Reached(p) == w_pc[p] \in {"wait", "return", "done", "read"}
Passed(p) == w_pc[p] \in {"return", "done", "read"}

\* every row the writer role emits in the call
FullFile ==
    IF w_variant = "write_csv" THEN DataFrameRows
    ELSE (IF w_args.include_header
          THEN <<HeaderRow(cols_to_print(w_args.include_population))>> ELSE <<>>)
         \o [k \in 1..Len(ReaderSpikes) |->
               c_data(ReaderSpikes[k], find_conversion(w_args.reader_units, w_args.units),
                      w_args.include_population)]

\* C1: once any rank has passed the barrier, every row the writer emitted is
\* in the file (nothing is left in the writer's buffer), and a rank that then
\* reads the path reads the complete file.
C1_NoPartialFileAfterBarrier ==
    \A p \in Ranks :
        /\ Passed(p) => (f_buffer = <<>> /\ disk = FullFile)
        /\ observed[p].read => observed[p].rows = FullFile

\* What does hold of C1: the same statement for write_csv and write_csv_OLD,
\* which close the file before the barrier.
NoPartialFileAfterBarrierWhenClosed ==
    w_variant # "write_csv_itr" =>
        \A p \in Ranks :
            /\ Passed(p) => (f_buffer = <<>> /\ disk = FullFile)
            /\ observed[p].read => observed[p].rows = FullFile

C3_OnlyWriterRoleDoesIO ==
    \A p \in Ranks \ {0} : io_ops[p] = {}

\* rank 0 has written an event row that another rank has iterated past
\* without any I/O
C3_Witness ==
    /\ w_variant = "write_csv_itr"
    /\ {"open", "writerow"} \subseteq io_ops[0]
    /\ spk_i[0] >= 1
    /\ \E p \in Ranks \ {0} : spk_i[p] >= 1 /\ io_ops[p] = {}

-----------------------------------------------------------------------------
(***************************************************************************)
(* CSVSTReader.__init__(path, sep=' ', default_population=None, **kwargs). *)
(* The file at path is a sequence of rows as the writers leave them.  The  *)
(* frame the constructor builds keeps each timestamp as the file holds it: *)
(* a fraction [num, den].                                                  *)
(***************************************************************************)
\* len(s) of the strings that occur in a file
StrLen(s) ==
    CASE s \in Pops -> 1
      [] s = "node_ids" -> 8
      [] OTHER -> 10

\* csv.Sniffer.has_header, for one column c of the sample: the first line is
\* taken as the header and the other lines vote.  With no other line the
\* column has no type and the cast of the header cell raises TypeError (+1);
\* a column of numbers votes for a header iff the header cell is no number; a
\* column of strings votes by length, and is dropped if its lengths differ.
ColumnVote(file, c) ==
    LET header == file[1]
        rest == SubSeq(file, 2, Len(file))
    IN  IF rest = <<>> THEN 1
        ELSE IF c # "population"
        THEN (IF header.kind = "data" THEN 0 - 1 ELSE 1)
        ELSE IF \E i, j \in 1..Len(rest) : StrLen(rest[i].pop) # StrLen(rest[j].pop)
        THEN 0
        ELSE IF (IF header.kind = "header" THEN StrLen(c) ELSE StrLen(header.pop))
                  # StrLen(rest[1].pop)
        THEN 1
        ELSE 0 - 1

RECURSIVE SumVotes(_, _)
SumVotes(file, cols) ==
    IF cols = <<>> THEN 0
    ELSE ColumnVote(file, Head(cols)) + SumVotes(file, Tail(cols))

\* lines 99-105: has_headers.  The sniffer raises on an empty sample, and the
\* except clause then answers True.
has_header(file) ==
    IF file = <<>> THEN TRUE
    ELSE SumVotes(file, file[1].cols) > 0

\* line 107: pd.read_csv(path, sep=sep, header=0 if has_headers else None).
\* With header=0 the first line gives the column names, whatever it holds;
\* with header=None the columns are numbered.
read_csv(file, has_headers) ==
    IF file = <<>>
    THEN [error |-> "EmptyDataError", columns |-> <<>>, rows |-> <<>>]
    ELSE IF has_headers
    THEN [error |-> "",
          columns |-> IF file[1].kind = "header" THEN file[1].cols
                      ELSE [j \in 1..Len(file[1].cols) |-> "value"],
          rows |-> Tail(file)]
    ELSE [error |-> "",
          columns |-> [j \in 1..Len(file[1].cols) |-> "number"],
          rows |-> file]

\* s[0::2]
EveryOther(s) == [k \in 1..((Len(s) + 1) \div 2) |-> s[2 * k - 1]]

InitFailed(has_headers, type) ==
    [state |-> "failed", error |-> type, has_headers |-> has_headers,
     columns |-> <<>>, _spikes_df |-> <<>>, _defaul_population |-> ""]

\* lines 95-119: the reader the constructor leaves, or the exception it raises
CSVSTReader_init(file, default_population, kw_population) ==
    LET has_headers == has_header(file)
        read == read_csv(file, has_headers)
        columns == IF has_headers THEN read.columns ELSE EveryOther(csv_headers)
        Has(cols, c) == \E j \in 1..Len(cols) : cols[j] = c
    IN  IF read.error # "" THEN InitFailed(has_headers, read.error)
        \* line 110: two names for the columns of the frame
        ELSE IF ~has_headers /\ Len(read.columns) # Len(columns)
        THEN InitFailed(has_headers, "ValueError")
        \* line 112: self._spikes_df[col_population][0]
        ELSE IF default_population.kind = "none"
                /\ (~Has(columns, "population") \/ read.rows = <<>>)
        THEN InitFailed(has_headers, "KeyError")
        ELSE LET defaul == IF default_population.kind # "none"
                           THEN CHOOSE x \in default_population.vals : TRUE
                           ELSE read.rows[1].pop
                 \* lines 114-116
                 pop_name == IF kw_population.kind # "none"
                             THEN CHOOSE x \in kw_population.vals : TRUE
                             ELSE defaul
                 with_column == IF Has(columns, "population") THEN columns
                                ELSE Append(columns, "population")
             IN  \* line 119: self._spikes_df[csv_headers]
                 IF \E j \in 1..Len(csv_headers) : ~Has(with_column, csv_headers[j])
                 THEN InitFailed(has_headers, "KeyError")
                 ELSE [state |-> "ready", error |-> "", has_headers |-> has_headers,
                       columns |-> csv_headers,
                       _spikes_df |->
                           [k \in 1..Len(read.rows) |->
                               <<read.rows[k].ts,
                                 IF Has(columns, "population") THEN read.rows[k].pop
                                 ELSE pop_name,
                                 read.rows[k].nid>>],
                       _defaul_population |-> defaul]

\* a file of events, with or without the header row and the population column
CsvFile(events, include_header, include_population) ==
    (IF include_header THEN <<HeaderRow(cols_to_print(include_population))>> ELSE <<>>)
    \o [k \in 1..Len(events) |->
          c_data(events[k], find_conversion("ms", "ms"), include_population)]

InitArgs ==
    [default_population : {None} \cup {Scalar(x) : x \in Pops},
     population : {None, Scalar("b")}]

InitRead ==
    /\ \E events \in SeqsUpTo(Rows, MaxRows), h \in BOOLEAN, c \in BOOLEAN :
          csv_file = CsvFile(events, h, c)
    /\ init_args \in InitArgs
    /\ csv_reader = [NoReader EXCEPT !.state = "new"]
    /\ reader_state = "idle"
    /\ spikes_df = <<>>
    /\ defaul_population = ""
    /\ sort_ties = <<>>
    /\ query = NoQuery
    /\ n_spikes_ret = NotCalled
    /\ spikes_ret = NotIterated
    /\ RatesIdle
    /\ PlotIdle
    /\ WriteIdle

\* CSVSTReader(path, default_population=..., population=...)
ReaderInit ==
    /\ csv_reader.state = "new"
    /\ csv_reader' = CSVSTReader_init(csv_file, init_args.default_population,
                                      init_args.population)
    /\ UNCHANGED <<reader_state, spikes_df, defaul_population, sort_ties, csv_file,
                   init_args, query, n_spikes_ret, spikes_ret, rate_vars, write_vars, plot_vars>>

NextRead == ReaderInit

SpecRead == InitRead /\ [][NextRead]_vars

-----------------------------------------------------------------------------
(***************************************************************************)
(* Claims about CSVSTReader.__init__ (checked under SpecRead)              *)
(***************************************************************************)
\* the file has rows, and no row of it has a population column
NoPopulationColumn(file) ==
    /\ file # <<>>
    /\ \A i \in 1..Len(file) : \A j \in 1..Len(file[i].cols) :
          file[i].cols[j] # "population"

Constructed == csv_reader.state \in {"ready", "failed"}

\* C11: the read of a file that has no population column succeeds, with or
\* without a header row and with or without a default population given by the
\* caller; every row of the store then carries one and the same population
\* label and the columns are exactly timestamps, population, node_ids.
C11_ReadWithoutPopulationColumn ==
    (Constructed /\ NoPopulationColumn(csv_file)) =>
        /\ csv_reader.state = "ready"
        /\ csv_reader.columns = csv_headers
        /\ \A i, j \in 1..Len(csv_reader._spikes_df) :
              csv_reader._spikes_df[i][2] = csv_reader._spikes_df[j][2]

\* What the constructor does give: with a default population from the caller,
\* and a header row or at least two rows of data, the read of a file without
\* a population column succeeds and every row carries the label of kwargs, or
\* else the default.
ReadWithoutPopulationColumnGivenDefault ==
    (/\ Constructed
     /\ NoPopulationColumn(csv_file)
     /\ init_args.default_population.kind # "none"
     /\ (csv_file[1].kind = "header" \/ Len(csv_file) >= 2)) =>
        /\ csv_reader.state = "ready"
        /\ csv_reader.columns = csv_headers
        /\ \A i \in 1..Len(csv_reader._spikes_df) :
              csv_reader._spikes_df[i][2] \in
                  (IF init_args.population.kind # "none" THEN init_args.population.vals
                   ELSE init_args.default_population.vals)

-----------------------------------------------------------------------------
(***************************************************************************)
(* A write followed by a read of the written file: one of the writers runs *)
(* on every rank, and once every rank has returned from it, a process      *)
(* builds CSVSTReader(path, ...) on the file the write left.               *)
(***************************************************************************)
RoundTripRows == {<<1, "a", 0>>, <<2, "a", 1>>, <<2, "b", 1>>}
RoundTripArgs ==
    [path_dir : {FALSE}, sort_order : SortOrders, include_header : BOOLEAN,
     include_population : BOOLEAN, reader_units : {"ms"}, units : {"ms", "s"}]

InitRoundTrip ==
    /\ ReaderConstructed(Scalar("a"), RoundTripRows, MaxRows)
    /\ query = NoQuery
    /\ n_spikes_ret = NotCalled
    /\ spikes_ret = NotIterated
    /\ w_variant \in WriteVariants
    /\ w_args \in RoundTripArgs
    /\ dir_exists = TRUE
    /\ disk = <<>>
    /\ f_open = FALSE
    /\ f_buffer = <<>>
    /\ w_pc = [p \in Ranks |-> "start"]
    /\ spk_i = [p \in Ranks |-> 0]
    /\ in_barrier = {}
    /\ io_ops = [p \in Ranks |-> {}]
    /\ observed = [p \in Ranks |-> NotRead]
    /\ RatesIdle
    /\ PlotIdle

\* CSVSTReader(path, default_population=..., population=...) on the written file
ReadWritten(args) ==
    /\ csv_reader.state = "none"
    /\ \A p \in Ranks : w_pc[p] \in {"done", "read"}
    /\ csv_file' = disk
    /\ init_args' = args
    /\ csv_reader' = CSVSTReader_init(disk, args.default_population, args.population)
    /\ UNCHANGED <<reader_state, spikes_df, defaul_population, sort_ties, query,
                   n_spikes_ret, spikes_ret, rate_vars, write_vars, plot_vars>>

NextRoundTrip ==
    \/ NextWrite
    \/ \E args \in InitArgs : ReadWritten(args)

SpecRoundTrip == InitRoundTrip /\ [][NextRoundTrip]_vars

-----------------------------------------------------------------------------
(***************************************************************************)
(* Claims about the round trip (checked under SpecRoundTrip)               *)
(***************************************************************************)
\* an event of the store, with its timestamp scaled by the factor conv
Scaled(row, conv) ==
    <<[num |-> row[1] * conv.num, den |-> conv.den], row[2], row[3]>>

\* two events whose timestamps are fractions: equal as numbers, and the same
\* population and node
SameEvent(e, f) ==
    /\ e[1].num * f[1].den = f[1].num * e[1].den
    /\ e[2] = f[2]
    /\ e[3] = f[3]

Occurrences(e, df) == Cardinality({k \in 1..Len(df) : SameEvent(df[k], e)})

\* the multisets of the events of two frames are equal
SameEvents(df1, df2) ==
    /\ Len(df1) = Len(df2)
    /\ \A k \in 1..Len(df1) : Occurrences(df1[k], df1) = Occurrences(df1[k], df2)

OriginalScaled ==
    [k \in 1..Len(spikes_df) |->
        Scaled(spikes_df[k], find_conversion(w_args.reader_units, w_args.units))]

SinglePopulation(label) ==
    \A k \in 1..Len(spikes_df) : col_population(spikes_df[k]) = label

\* the read of the written file has been made with the arguments the claim
\* allows: no population in kwargs, and, when the file was written without
\* the population column, the one label of the store as default population
RoundTripRead ==
    /\ Constructed
    /\ init_args.population = None
    /\ ~w_args.include_population =>
          \E label \in Pops : /\ SinglePopulation(label)
                              /\ init_args.default_population = Scalar(label)

\* C12: for every store and every sort_order, include_header and
\* include_population, the read of the file that the write produced gives a
\* store whose multiset of (timestamp, population, node_id) events is the
\* original's with the timestamps scaled by find_conversion(store.unit, unit);
\* without the population column, for a store of one population whose label
\* is given as the default population.
C12_RoundTrip ==
    RoundTripRead =>
        /\ csv_reader.state = "ready"
        /\ SameEvents(csv_reader._spikes_df, OriginalScaled)

\* What the code does give: the round trip of write_csv_itr and write_csv_OLD
\* with the header row, when the read is given a default population or the
\* store has an event.
RoundTripWithHeader ==
    (/\ RoundTripRead
     /\ w_variant \in {"write_csv_itr", "write_csv_OLD"}
     /\ w_args.include_header
     /\ (init_args.default_population # None \/ spikes_df # <<>>)) =>
        /\ csv_reader.state = "ready"
        /\ SameEvents(csv_reader._spikes_df, OriginalScaled)

\* write_csv does not convert: its round trip with the header row gives the
\* events with the timestamps of the store.
RoundTripToCsvUnscaled ==
    (/\ RoundTripRead
     /\ w_variant = "write_csv"
     /\ w_args.include_header
     /\ (init_args.default_population # None \/ spikes_df # <<>>)) =>
        /\ csv_reader.state = "ready"
        /\ SameEvents(csv_reader._spikes_df,
                      [k \in 1..Len(spikes_df) |->
                          Scaled(spikes_df[k], find_conversion("ms", "ms"))])

\* once every rank has returned from the write, the file holds every row
WrittenFileIsFull ==
    (\A p \in Ranks : w_pc[p] \in {"done", "read"}) => disk = FullFile

-----------------------------------------------------------------------------
(***************************************************************************)
(* plot_rates(cells_file, cell_models_file, spikes_file, group_key,        *)
(* exclude, interval, show, title, save_as, smoothed): the grouped rate    *)
(* summary keys, means, stds and the file '<base>.summary.csv'.  The node  *)
(* file has the columns node_id, node_type_id and location, the node type  *)
(* file the columns node_type_id and pop_name.  A mean is the fraction     *)
(* [num, den]; np.std is kept by its square, the variance [num, den].      *)
(***************************************************************************)
MaxNodes == 3

\* NaN: an empty cell of a file, or a cell the left merge could not fill
NaNLabel == "nan"
NodeTypeIds == {100, 101}
\* a node may name a type that the node type file does not list
UnlistedTypeId == 102
NodesColumns == {"node_type_id", "location"}
FullColumns == NodesColumns \cup {"pop_name"}

\* line 17 (index_col='node_id'): the rows of the node file
NodeRows(n) ==
    {[k \in 1..n |-> [node_id |-> k - 1, node_type_id |-> f[k][1], location |-> f[k][2]]] :
        f \in [1..n -> (NodeTypeIds \cup {UnlistedTypeId}) \X (Pops \cup {NaNLabel})]}

\* line 18: pd.merge(left=nodes_df, right=node_types_df, how='left', ...)
merge(nodes, node_types) ==
    [k \in 1..Len(nodes) |->
        [node_id |-> nodes[k].node_id,
         node_type_id |-> nodes[k].node_type_id,
         location |-> nodes[k].location,
         pop_name |-> IF nodes[k].node_type_id \in DOMAIN node_types
                      THEN node_types[nodes[k].node_type_id]
                      ELSE NaNLabel]]

\* df[group_key] of one row
Cell(row, group_key) ==
    IF group_key = "pop_name" THEN row.pop_name ELSE row.location

KeyOf(group_key) == CHOOSE x \in group_key.vals : TRUE

\* lines 14-31: the table, or the exception the call raises
create_node_table(node_file, node_type_file, group_key, exclude) ==
    LET full_df == merge(node_file, node_type_file)
    IN  IF group_key # None /\ exclude # {}
        THEN IF KeyOf(group_key) \notin FullColumns
             THEN [error |-> "Exception", df |-> <<>>]
             \* line 25: nodes_df[group_key] of the node file alone
             ELSE IF KeyOf(group_key) \notin NodesColumns
             THEN [error |-> "KeyError", df |-> <<>>]
             ELSE [error |-> "",
                   df |-> SelectSeq(full_df,
                                    LAMBDA row : Cell(row, KeyOf(group_key)) \notin exclude)]
        ELSE [error |-> "", df |-> full_df]

\* Series.unique(): the values in the order of first appearance, NaN among them
RECURSIVE unique(_)
unique(col) ==
    IF col = <<>> THEN <<>>
    ELSE LET front == unique(SubSeq(col, 1, Len(col) - 1))
             last == col[Len(col)]
         IN  IF \E i \in 1..Len(front) : front[i] = last THEN front
             ELSE Append(front, last)

\* the labels in sorted order
SortedLabels == <<"a", "b">>

\* df.groupby(group_key): the groups in sorted order of their name; a row
\* whose key is NaN is in no group
groupby(df, group_key) ==
    LET names == SelectSeq(SortedLabels,
                           LAMBDA l : \E k \in 1..Len(df) : Cell(df[k], group_key) = l)
    IN  [g \in 1..Len(names) |->
            [name |-> names[g],
             df |-> SelectSeq(df, LAMBDA row : Cell(row, group_key) = names[g])]]

RECURSIVE SeqSum(_)
SeqSum(xs) == IF xs = <<>> THEN 0 ELSE Head(xs) + SeqSum(Tail(xs))

np_mean(xs) == [num |-> SeqSum(xs), den |-> Len(xs)]
\* np.std(xs) squared: mean(x^2) - mean(x)^2
np_std(xs) ==
    [num |-> Len(xs) * SeqSum([k \in 1..Len(xs) |-> xs[k] * xs[k]]) - SeqSum(xs) * SeqSum(xs),
     den |-> Len(xs) * Len(xs)]

\* spike_rates[group_df.index]
RatesOf(rates, group_df) ==
    [k \in 1..Len(group_df) |-> rates[group_df[k].node_id + 1]]

Zero == [num |-> 0, den |-> 1]

\* the rates _count_spikes may return for one node, in Hz
RateValues == {0, 1}

GroupKeys == {None, Scalar("pop_name"), Scalar("location"), Scalar("no_such")}
Excludes == {{}, {"a"}, {"a", "b"}}

InitPlot ==
    /\ cells_file \in UNION {NodeRows(n) : n \in 0..MaxNodes}
    /\ cell_models_file \in [NodeTypeIds -> Pops]
    /\ pr_args \in [group_key : GroupKeys, exclude : Excludes, save_as : BOOLEAN]
    /\ pr_pc = "call"
    /\ nodes_df = <<>>
    /\ spike_rates = <<>>
    /\ keys = <<>> /\ means = <<>> /\ stds = <<>>
    /\ summary_csv = <<>>
    /\ pr_error = ""
    /\ RatesIdle
    /\ StoreIdle
    /\ WriteIdle

PlotRaise(type) ==
    /\ pr_pc' = "raised"
    /\ pr_error' = type

\* line 252: nodes_df = _create_node_table(cells_file, cell_models_file, ...)
CreateNodeTable ==
    /\ pr_pc = "call"
    /\ LET table == create_node_table(cells_file, cell_models_file,
                                      pr_args.group_key, pr_args.exclude)
       IN  IF table.error # ""
           THEN PlotRaise(table.error) /\ UNCHANGED nodes_df
           ELSE /\ nodes_df' = table.df
                /\ pr_pc' = "count"
                /\ UNCHANGED pr_error
    /\ UNCHANGED <<cells_file, cell_models_file, pr_args, spike_rates, keys, means,
                   stds, summary_csv, rate_vars, store_vars, write_vars>>

\* line 253: _, spike_rates = _count_spikes(spikes_file, max(nodes_df.index),
\* interval), a call that returns: one rate for each gid in 0..max_gid
CountSpikes ==
    /\ pr_pc = "count"
    /\ IF nodes_df = <<>>
       THEN PlotRaise("ValueError") /\ UNCHANGED spike_rates
       ELSE LET max_index == SetMax({nodes_df[k].node_id : k \in 1..Len(nodes_df)})
            IN  /\ spike_rates' \in [1..(max_index + 1) -> RateValues]
                /\ pr_pc' = "group"
                /\ UNCHANGED pr_error
    /\ UNCHANGED <<cells_file, cell_models_file, pr_args, nodes_df, keys, means,
                   stds, summary_csv, rate_vars, store_vars, write_vars>>

\* lines 255-276: ordered_groupings, then keys, means and stds
GroupRates ==
    /\ pr_pc = "group"
    /\ IF pr_args.group_key = None
       \* line 266, then line 268: len(group_order) of a name never bound
       THEN PlotRaise("UnboundLocalError") /\ UNCHANGED <<keys, means, stds>>
       ELSE IF KeyOf(pr_args.group_key) \notin FullColumns
       \* line 256: groupby of a column the table does not have
       THEN PlotRaise("KeyError") /\ UNCHANGED <<keys, means, stds>>
       ELSE LET group_key == KeyOf(pr_args.group_key)
                groupings == groupby(nodes_df, group_key)
                uniq == unique([k \in 1..Len(nodes_df) |-> Cell(nodes_df[k], group_key)])
                group_order(name) == CHOOSE i \in 1..Len(uniq) : uniq[i] = name
                n_colors == Len(uniq)
                \* zip(color_map, groupings) stops at the shorter of the two
                zipped == IF n_colors < Len(groupings) THEN n_colors ELSE Len(groupings)
                ordered_groupings ==
                    [g \in 1..zipped |->
                        [indx |-> group_order(groupings[g].name),
                         name |-> groupings[g].name,
                         rates |-> RatesOf(spike_rates, groupings[g].df)]]
                Assigned(i) == {g \in 1..zipped : ordered_groupings[g].indx = i}
                Last(i) == ordered_groupings[SetMax(Assigned(i))]
            IN  /\ keys' = [i \in 1..n_colors |->
                              IF Assigned(i) = {} THEN "" ELSE Last(i).name]
                /\ means' = [i \in 1..n_colors |->
                              IF Assigned(i) = {} THEN Zero ELSE np_mean(Last(i).rates)]
                /\ stds' = [i \in 1..n_colors |->
                              IF Assigned(i) = {} THEN Zero ELSE np_std(Last(i).rates)]
                /\ pr_pc' = "save"
                /\ UNCHANGED pr_error
    /\ UNCHANGED <<cells_file, cell_models_file, pr_args, nodes_df, spike_rates,
                   summary_csv, rate_vars, store_vars, write_vars>>

\* lines 297-309: the summary file, if save_as is given
SaveSummary ==
    /\ pr_pc = "save"
    /\ IF pr_args.save_as
       THEN summary_csv' =
                [header |-> <<"population", "mean", "stddev">>,
                 rows |-> [i \in 1..Len(keys) |->
                             [population |-> keys[i], mean |-> means[i], stddev |-> stds[i]]]]
       ELSE UNCHANGED summary_csv
    /\ pr_pc' = "done"
    /\ UNCHANGED <<cells_file, cell_models_file, pr_args, nodes_df, spike_rates, keys,
                   means, stds, pr_error, rate_vars, store_vars, write_vars>>

NextPlot ==
    \/ CreateNodeTable
    \/ CountSpikes
    \/ GroupRates
    \/ SaveSummary

SpecPlot == InitPlot /\ [][NextPlot]_vars

-----------------------------------------------------------------------------
(***************************************************************************)
(* Claims about the grouped rate summary (checked under SpecPlot)          *)
(***************************************************************************)
PlotFinished == pr_pc \in {"done", "raised"}

\* the group attribute is omitted or names a column of the merged table
GroupKeyKnown ==
    pr_args.group_key = None \/ KeyOf(pr_args.group_key) \in FullColumns

\* the nodes of the merged table that the exclusion leaves: with a group
\* attribute, those whose value of it is not excluded
MembersAfterExclusion ==
    LET full_df == merge(cells_file, cell_models_file)
    IN  IF pr_args.group_key = None THEN full_df
        ELSE SelectSeq(full_df,
                       LAMBDA row : Cell(row, KeyOf(pr_args.group_key)) \notin pr_args.exclude)

\* the populations that have a member node after exclusion, in the order of
\* their first appearance in the node table
PopulationsInOrder ==
    LET labels == [k \in 1..Len(MembersAfterExclusion) |->
                      Cell(MembersAfterExclusion[k], KeyOf(pr_args.group_key))]
    IN  SelectSeq(unique(labels), LAMBDA l : l # NaNLabel)

\* the rates of the member nodes of population l, in table order
MemberRates(l) ==
    RatesOf(spike_rates,
            SelectSeq(MembersAfterExclusion,
                      LAMBDA row : Cell(row, KeyOf(pr_args.group_key)) = l))

\* keys, means and stds hold one entry for each population with a member,
\* in the order of first appearance, and nothing else
SummaryIsPerPopulation ==
    /\ keys = PopulationsInOrder
    /\ means = [i \in 1..Len(keys) |-> np_mean(MemberRates(keys[i]))]
    /\ stds = [i \in 1..Len(keys) |-> np_std(MemberRates(keys[i]))]

\* the summary file holds the entries of keys, means and stds, in their order
SummaryFileIsSummary ==
    pr_args.save_as =>
        /\ Len(summary_csv.rows) = Len(keys)
        /\ \A i \in 1..Len(keys) :
              summary_csv.rows[i] =
                  [population |-> keys[i], mean |-> means[i], stddev |-> stds[i]]

\* C13: the grouped rate summary, and the summary file written from it, has
\* exactly one (population, mean, std) entry for each population that has a
\* member node after exclusion, none for any other label, in the order of
\* first appearance of the populations in the node table; also when a node
\* has a null group attribute after the left join, and, as far as the call
\* returning goes, when group_key is omitted.
C13_SummaryPerPopulation ==
    (PlotFinished /\ GroupKeyKnown /\ MembersAfterExclusion # <<>>) =>
        /\ pr_pc = "done"
        /\ pr_args.group_key # None => SummaryIsPerPopulation
        /\ SummaryFileIsSummary

\* What the code does give: with a group attribute of which no member node
\* has a null value, and an exclusion only on an attribute of the node file,
\* the summary is the one of the claim.
SummaryWithoutNulls ==
    (/\ PlotFinished
     /\ pr_args.group_key # None
     /\ GroupKeyKnown
     /\ MembersAfterExclusion # <<>>
     /\ pr_args.exclude # {} => KeyOf(pr_args.group_key) \in NodesColumns
     /\ \A k \in 1..Len(MembersAfterExclusion) :
           Cell(MembersAfterExclusion[k], KeyOf(pr_args.group_key)) # NaNLabel) =>
        /\ pr_pc = "done"
        /\ SummaryIsPerPopulation
        /\ SummaryFileIsSummary

\* With a null value among the member nodes the summary has, at the place of
\* first appearance of the null, one more entry: the key '' with mean 0 and
\* std 0.
SummaryWithNullEntry ==
    (/\ pr_pc = "done"
     /\ \E k \in 1..Len(nodes_df) :
           Cell(nodes_df[k], KeyOf(pr_args.group_key)) = NaNLabel) =>
        /\ Len(keys) = Len(PopulationsInOrder) + 1
        /\ \E i \in 1..Len(keys) : keys[i] = "" /\ means[i] = Zero /\ stds[i] = Zero
        /\ SelectSeq(keys, LAMBDA l : l # "") = PopulationsInOrder

\* Without a group attribute the call never returns a summary.
NoSummaryWithoutGroupKey ==
    (PlotFinished /\ pr_args.group_key = None) => pr_pc = "raised"

=============================================================================
